---- MODULE Spec2Model ----
(***************************************************************************)
(* Model of src/Python/teste.py: the triangle-inequality checker.          *)
(*                                                                         *)
(* Lengths are exact numbers on an integer grid (one unit is an arbitrary  *)
(* fixed length).  The cosine handed to arccos and the apex coordinates    *)
(* are kept as exact fractions: x = xnum/den, y^2 = y2num/(den*den), and   *)
(* the sign of y is kept apart, so that no rounding enters the model.      *)
(***************************************************************************)
EXTENDS Integers, Sequences, FiniteSets, TLC

\* Largest length a prompt is answered with.
MaxLen == 5
\* Magnitude of the most negative number a prompt is answered with.
NegLen == 1

VARIABLES
    pc,               \* position of main()
    entered,          \* the answers typed so far, in order
    a, b, c,          \* main's locals a, b, c (0 until assigned)
    forma_triangulo,  \* main's local forma_triangulo (FALSE until assigned)
    arccos_arg,       \* argument np.arccos was last evaluated on
    fig,              \* what has been drawn on the axes
    shown,            \* number of plt.show() calls
    rel,              \* what the final report printed
    out               \* trace of the calls and prints of the run, in order

vars == <<pc, entered, a, b, c, forma_triangulo, arccos_arg, fig, shown, rel, out>>

-----------------------------------------------------------------------------
(* Console input *)

\* What can be typed at a prompt: a numeral for a number, or text that is none.
Tokens ==
    {[numeric |-> TRUE, val |-> v] : v \in (0 - NegLen)..MaxLen}
        \cup {[numeric |-> FALSE, val |-> 0]}

\* Variant: text that is no number is read as 0.0 instead of raising ValueError.
float_lenient(t) ==
    [ok |-> TRUE, val |-> t.val]

\* float(input(...)): the number, or ValueError (ok = FALSE).
float_(t) ==
    IF t.numeric THEN [ok |-> TRUE, val |-> t.val] ELSE [ok |-> FALSE, val |-> 0]

-----------------------------------------------------------------------------
(* Validator *)

\* Variant: non-strict comparisons (flat triangles accepted).
verificar_nao_estrito(x, y, z) ==
    (x + y >= z) /\ (x + z >= y) /\ (y + z >= x)

\* Variant: the third inequality is forgotten.
verificar_sem_terceira(x, y, z) ==
    (x + y > z) /\ (x + z > y)

\* Variant: the first inequality is forgotten.
verificar_sem_primeira(x, y, z) ==
    (x + z > y) /\ (y + z > x)

\* Variant: the third comparison is written the wrong way round.
verificar_invertido(x, y, z) ==
    (x + y > z) /\ (x + z > y) /\ (y + z < x)

verificar_triangulo(x, y, z) ==
    (x + y > z) /\ (x + z > y) /\ (y + z > x)

-----------------------------------------------------------------------------
(* Geometry solver *)

\* Variant: the law of cosines written for the angle opposite c.
CosArg_opposite_c(x, y, z) ==
    [num |-> x * x + y * y - z * z, den |-> 2 * x * y]

\* (a**2 + c**2 - b**2) / (2 * a * c) as the fraction num/den.
CosArg(x, y, z) ==
    [num |-> x * x + z * z - y * y, den |-> 2 * x * z]

\* np.arccos is defined on [-1, 1] and yields nan elsewhere.
ArccosDefined(r) ==
    IF r.den > 0
    THEN (0 - r.den) <= r.num /\ r.num <= r.den
    ELSE r.den < 0 /\ r.den <= r.num /\ r.num <= (0 - r.den)

\* The apex (a*cos(angulo), a*sin(angulo)) with angulo = arccos(num/den) in
\* [0, pi]: cos(angulo) = num/den and sin(angulo) = +sqrt(1 - (num/den)^2).
calcular_vertice(x, y, z) ==
    LET r == CosArg(x, y, z)
        s2 == r.den * r.den - r.num * r.num
    IN  IF ArccosDefined(r)
        THEN [nan   |-> FALSE,
              xnum  |-> x * r.num,
              y2num |-> x * x * s2,
              ysign |-> IF s2 > 0 THEN 1 ELSE 0,
              den   |-> r.den]
        ELSE [nan |-> TRUE, xnum |-> 0, y2num |-> 0, ysign |-> 0, den |-> r.den]

NoVertex == [nan |-> FALSE, xnum |-> 0, y2num |-> 0, ysign |-> 0, den |-> 1]

-----------------------------------------------------------------------------
(* sorted() *)

RECURSIVE Insert(_, _)
Insert(s, v) ==
    IF s = <<>> THEN <<v>>
    ELSE IF v < Head(s) THEN <<v>> \o s
    ELSE <<Head(s)>> \o Insert(Tail(s), v)

RECURSIVE sorted(_)
sorted(s) ==
    IF s = <<>> THEN <<>> ELSE Insert(sorted(SubSeq(s, 1, Len(s) - 1)), s[Len(s)])

-----------------------------------------------------------------------------
(* Labels of the segments diagram (plotar_segmentos) *)

seg_label_maior(x, y, z) ==
    LET maior == sorted(<<x, y, z>>)[3]
    IN  IF x = maior THEN "a" ELSE IF y = maior THEN "b" ELSE "c"

\* Variant: the membership test uses the smallest and the largest side.
seg_labels_menores_maior(x, y, z) ==
    LET lados_ordenados == sorted(<<x, y, z>>)
        menores == {lados_ordenados[1], lados_ordenados[3]}
    IN  (IF x \in menores THEN <<"a">> ELSE <<>>)
            \o (IF y \in menores THEN <<"b">> ELSE <<>>)
            \o (IF z \in menores THEN <<"c">> ELSE <<>>)

seg_labels_menores(x, y, z) ==
    LET lados_ordenados == sorted(<<x, y, z>>)
        menores == {lados_ordenados[1], lados_ordenados[2]}
    IN  (IF x \in menores THEN <<"a">> ELSE <<>>)
            \o (IF y \in menores THEN <<"b">> ELSE <<>>)
            \o (IF z \in menores THEN <<"c">> ELSE <<>>)

-----------------------------------------------------------------------------
(* Labels and figures of the textual report (main) *)

\* Variant: maior is taken from the wrong end of the sorted list.
rel_label_maior_primeiro(x, y, z) ==
    LET maior == sorted(<<x, y, z>>)[1]
    IN  IF x = maior THEN "a" ELSE IF y = maior THEN "b" ELSE "c"

rel_label_maior(x, y, z) ==
    LET maior == sorted(<<x, y, z>>)[3]
    IN  IF x = maior THEN "a" ELSE IF y = maior THEN "b" ELSE "c"

rel_labels_menores(x, y, z) ==
    LET lados_ordenados == sorted(<<x, y, z>>)
        maior == lados_ordenados[3]
    IN  IF x = maior
        THEN (IF y = lados_ordenados[1] THEN <<"b", "c">> ELSE <<"c", "b">>)
        ELSE IF y = maior
        THEN (IF x = lados_ordenados[1] THEN <<"a", "c">> ELSE <<"c", "a">>)
        ELSE (IF x = lados_ordenados[1] THEN <<"a", "b">> ELSE <<"b", "a">>)

\* Variant: the two verdict texts are exchanged.
veredito_trocado(forma) ==
    IF forma THEN "NAO forma triangulo" ELSE "PODE formar triangulo"

veredito(forma) ==
    IF forma THEN "PODE formar triangulo" ELSE "NAO forma triangulo"

\* Variant: zero is let through.
nao_positivo_estrito(x, y, z) == x < 0 \/ y < 0 \/ z < 0

nao_positivo(x, y, z) == x <= 0 \/ y <= 0 \/ z <= 0

-----------------------------------------------------------------------------
(* The driver *)

NoFig == [kind |-> "none", vertice |-> NoVertex, base |-> 0,
          label_maior |-> "", labels_menores |-> <<>>,
          soma_menores |-> 0, maior |-> 0]

NoRel == [printed |-> FALSE, eco |-> <<>>, detalhe |-> FALSE, soma_menores |-> 0,
          maior |-> 0, label_maior |-> "", labels_menores |-> <<>>, resultado |-> ""]

Init ==
    /\ pc = "banner"
    /\ entered = <<>>
    /\ a = 0 /\ b = 0 /\ c = 0
    /\ forma_triangulo = FALSE
    /\ arccos_arg = [num |-> 0, den |-> 1]
    /\ fig = NoFig
    /\ shown = 0
    /\ rel = NoRel
    /\ out = <<>>

Banner ==
    /\ pc = "banner"
    /\ pc' = "input_a"
    /\ out' = Append(out, "banner")
    /\ UNCHANGED <<entered, a, b, c, forma_triangulo, arccos_arg, fig, shown, rel>>

InputA ==
    /\ pc = "input_a"
    /\ \E t \in Tokens :
        /\ entered' = Append(entered, t)
        /\ IF float_(t).ok
           THEN a' = float_(t).val /\ pc' = "input_b" /\ out' = out
           ELSE a' = a /\ pc' = "fim" /\ out' = Append(out, "erro_numerico")
    /\ UNCHANGED <<b, c, forma_triangulo, arccos_arg, fig, shown, rel>>

InputB ==
    /\ pc = "input_b"
    /\ \E t \in Tokens :
        /\ entered' = Append(entered, t)
        /\ IF float_(t).ok
           THEN b' = float_(t).val /\ pc' = "input_c" /\ out' = out
           ELSE b' = b /\ pc' = "fim" /\ out' = Append(out, "erro_numerico")
    /\ UNCHANGED <<a, c, forma_triangulo, arccos_arg, fig, shown, rel>>

InputC ==
    /\ pc = "input_c"
    /\ \E t \in Tokens :
        /\ entered' = Append(entered, t)
        /\ IF float_(t).ok
           THEN c' = float_(t).val /\ pc' = "positivos" /\ out' = out
           ELSE c' = c /\ pc' = "fim" /\ out' = Append(out, "erro_numerico")
    /\ UNCHANGED <<a, b, forma_triangulo, arccos_arg, fig, shown, rel>>

Positivos ==
    /\ pc = "positivos"
    /\ IF nao_positivo(a, b, c)
       THEN pc' = "fim" /\ out' = Append(out, "erro_positivo")
       ELSE pc' = "verificar" /\ out' = out
    /\ UNCHANGED <<entered, a, b, c, forma_triangulo, arccos_arg, fig, shown, rel>>

Verificar ==
    /\ pc = "verificar"
    /\ forma_triangulo' = verificar_triangulo(a, b, c)
    /\ out' = Append(out, "verificar_triangulo")
    /\ pc' = "figura"
    /\ UNCHANGED <<entered, a, b, c, arccos_arg, fig, shown, rel>>

Figura ==
    /\ pc = "figura"
    /\ fig' = [fig EXCEPT !.kind = "vazia"]
    /\ out' = Append(out, "subplots")
    /\ pc' = "plotar"
    /\ UNCHANGED <<entered, a, b, c, forma_triangulo, arccos_arg, shown, rel>>

plotar_triangulo ==
    /\ pc = "plotar"
    /\ forma_triangulo
    /\ arccos_arg' = CosArg(a, b, c)
    /\ fig' = [fig EXCEPT !.kind = "triangulo",
                          !.vertice = calcular_vertice(a, b, c),
                          !.base = c]
    /\ out' = out \o <<"calcular_vertice", "plotar_triangulo">>
    /\ pc' = "show"
    /\ UNCHANGED <<entered, a, b, c, forma_triangulo, shown, rel>>

plotar_segmentos ==
    /\ pc = "plotar"
    /\ ~forma_triangulo
    /\ LET lados_ordenados == sorted(<<a, b, c>>)
           labels_menores == seg_labels_menores(a, b, c)
       IN  IF Len(labels_menores) < 2
           THEN /\ fig' = fig
                /\ out' = Append(out, "IndexError")
                /\ pc' = "fim"
           ELSE /\ fig' = [fig EXCEPT
                              !.kind = "segmentos",
                              !.label_maior = seg_label_maior(a, b, c),
                              !.labels_menores = labels_menores,
                              !.soma_menores = lados_ordenados[1] + lados_ordenados[2],
                              !.maior = lados_ordenados[3]]
                /\ out' = Append(out, "plotar_segmentos")
                /\ pc' = "show"
    /\ UNCHANGED <<entered, a, b, c, forma_triangulo, arccos_arg, shown, rel>>

Show ==
    /\ pc = "show"
    /\ shown' = shown + 1
    /\ out' = Append(out, "show")
    /\ pc' = "relatorio"
    /\ UNCHANGED <<entered, a, b, c, forma_triangulo, arccos_arg, fig, rel>>

Relatorio ==
    /\ pc = "relatorio"
    /\ LET lados_ordenados == sorted(<<a, b, c>>)
       IN  rel' = [printed |-> TRUE,
                   eco |-> <<a, b, c>>,
                   detalhe |-> ~forma_triangulo,
                   soma_menores |->
                       IF forma_triangulo THEN 0
                       ELSE lados_ordenados[1] + lados_ordenados[2],
                   maior |-> IF forma_triangulo THEN 0 ELSE lados_ordenados[3],
                   label_maior |->
                       IF forma_triangulo THEN "" ELSE rel_label_maior(a, b, c),
                   labels_menores |->
                       IF forma_triangulo THEN <<>> ELSE rel_labels_menores(a, b, c),
                   resultado |-> veredito(forma_triangulo)]
    /\ out' = out \o <<"segmentos">>
                  \o (IF forma_triangulo THEN <<>> ELSE <<"condicao_violada">>)
                  \o <<"resultado">>
    /\ pc' = "fim"
    /\ UNCHANGED <<entered, a, b, c, forma_triangulo, arccos_arg, fig, shown>>

Next ==
    \/ Banner
    \/ InputA
    \/ InputB
    \/ InputC
    \/ Positivos
    \/ Verificar
    \/ Figura
    \/ plotar_triangulo
    \/ plotar_segmentos
    \/ Show
    \/ Relatorio

Spec == Init /\ [][Next]_vars

\* main() runs straight through: once a prompt is answered and once the figure
\* window is closed, the next statement executes.
FairSpec == Spec /\ WF_vars(Next)

-----------------------------------------------------------------------------
(* Vocabulary of the properties *)

Called(e) == \E i \in 1..Len(out) : out[i] = e

Positive == a > 0 /\ b > 0 /\ c > 0

Validated == Called("verificar_triangulo")

\* Nothing was computed, drawn or reported.
NoComputation ==
    /\ ~Validated
    /\ ~Called("subplots")
    /\ ~Called("calcular_vertice")
    /\ fig = NoFig
    /\ shown = 0
    /\ rel = NoRel

AllParsed == Len(entered) = 3 /\ \A i \in 1..3 : entered[i].numeric

SomeNonPositive ==
    \E i \in 1..Len(entered) : entered[i].numeric /\ entered[i].val <= 0

AllPositiveRead == AllParsed /\ \A i \in 1..3 : entered[i].val > 0

Max3(x, y, z) ==
    IF x >= y /\ x >= z THEN x ELSE IF y >= z THEN y ELSE z

Val(l) == IF l = "a" THEN a ELSE IF l = "b" THEN b ELSE c

Elems(s) == {s[i] : i \in 1..Len(s)}

\* The sides whose inequality (the other two sum to more than it) fails.
Violated ==
    {l \in {"a", "b", "c"} : ~((a + b + c) - Val(l) > Val(l))}

-----------------------------------------------------------------------------
(* C1 *)

\* C1: for positive a, b, c the Validator returns true exactly when a+b>c,
\* a+c>b and b+c>a all hold strictly; a triple in which one side equals the
\* sum of the other two is rejected.
C1_ValidatorIff ==
    (Validated /\ Positive) =>
        /\ forma_triangulo <=> (a + b > c /\ a + c > b /\ b + c > a)
        /\ (a + b = c \/ a + c = b \/ b + c = a) => ~forma_triangulo

C1_Witness ==
    Validated /\ Positive /\ a + b = c /\ ~forma_triangulo

-----------------------------------------------------------------------------
(* C2 *)

\* C2 as stated: whenever a number <= 0 was entered at any prompt, the run
\* ends with the non-positive-length error and nothing was computed.
C2_Original ==
    (pc = "fim" /\ SomeNonPositive) =>
        (Called("erro_positivo") /\ NoComputation)

\* C2 amended: whenever all three entered values parse as numbers and one of
\* them, at whichever prompt, is <= 0, the run ends with the
\* non-positive-length error alone; and in every run in which a number <= 0
\* was entered nothing is computed, drawn or reported.
C2_NonPositive ==
    SomeNonPositive =>
        /\ NoComputation
        /\ (pc = "fim" /\ AllParsed) => out = <<"banner", "erro_positivo">>

C2_Witness ==
    /\ pc = "fim"
    /\ AllParsed
    /\ entered[1].val > 0 /\ entered[2].val = 0 /\ entered[3].val > 0
    /\ Called("erro_positivo")

-----------------------------------------------------------------------------
(* C3 *)

\* C3: when an entered value fails to parse as a number the run ends at once
\* with the numeric-input error alone: the Validator is not invoked, no figure
\* is rendered and no report is printed.
C3_ParseError ==
    (\E i \in 1..Len(entered) : ~entered[i].numeric) =>
        /\ pc = "fim"
        /\ out = <<"banner", "erro_numerico">>
        /\ ~Called("erro_positivo")
        /\ NoComputation

C3_Witness ==
    /\ pc = "fim"
    /\ Len(entered) = 3
    /\ entered[1].numeric /\ entered[2].numeric /\ ~entered[3].numeric
    /\ Called("erro_numerico")

-----------------------------------------------------------------------------
(* C4 *)

-----------------------------------------------------------------------------
(* C5 *)

\* C5: the apex (x, y) drawn for a feasible triple, with the base from (0,0)
\* to (c,0), has x = (a^2 + c^2 - b^2)/(2c), y >= 0, x^2 + y^2 = a^2 and
\* (x - c)^2 + y^2 = b^2.
C5_Apex ==
    fig.kind = "triangulo" =>
        LET v == fig.vertice
        IN  /\ ~v.nan
            /\ fig.base = c
            /\ v.den > 0
            /\ v.xnum * (2 * c) = (a * a + c * c - b * b) * v.den
            /\ v.y2num >= 0 /\ v.ysign >= 0
            /\ (v.ysign = 0) <=> (v.y2num = 0)
            /\ v.xnum * v.xnum + v.y2num = a * a * v.den * v.den
            /\ (v.xnum - c * v.den) * (v.xnum - c * v.den) + v.y2num
                   = b * b * v.den * v.den

C5_Witness ==
    /\ fig.kind = "triangulo"
    /\ a = 3 /\ b = 4 /\ c = 5
    /\ fig.vertice.ysign = 1
    /\ 5 * fig.vertice.xnum = 9 * fig.vertice.den

-----------------------------------------------------------------------------
(* C6 *)

\* C6: for positive a, b, c the Validator's result is the same for every
\* ordering of its three arguments.
C6_Symmetry ==
    (Validated /\ Positive) =>
        /\ verificar_triangulo(a, c, b) = forma_triangulo
        /\ verificar_triangulo(b, a, c) = forma_triangulo
        /\ verificar_triangulo(b, c, a) = forma_triangulo
        /\ verificar_triangulo(c, a, b) = forma_triangulo
        /\ verificar_triangulo(c, b, a) = forma_triangulo

C6_Witness ==
    Validated /\ Positive /\ ~forma_triangulo /\ c > a /\ a > b

-----------------------------------------------------------------------------
(* C7 *)

-----------------------------------------------------------------------------
(* C8 *)

\* C8: the report of a rejected positive triple gives the sum of the two
\* smallest sides and the largest side, and names 'L > M + N' where L labels a
\* side of maximal value, M and N are the two other labels, and the value of L
\* is not less than the sum of the values of M and N.
C8_Report ==
    (rel.printed /\ Positive /\ ~forma_triangulo) =>
        /\ rel.detalhe
        /\ rel.eco = <<a, b, c>>
        /\ rel.maior = Max3(a, b, c)
        /\ rel.soma_menores = (a + b + c) - Max3(a, b, c)
        /\ rel.label_maior \in {"a", "b", "c"}
        /\ Val(rel.label_maior) = Max3(a, b, c)
        /\ Len(rel.labels_menores) = 2
        /\ rel.labels_menores[1] # rel.labels_menores[2]
        /\ Elems(rel.labels_menores) = {"a", "b", "c"} \ {rel.label_maior}
        /\ Val(rel.label_maior)
               >= Val(rel.labels_menores[1]) + Val(rel.labels_menores[2])
        /\ rel.label_maior \in Violated

C8_Witness ==
    /\ rel.printed /\ Positive /\ ~forma_triangulo
    /\ rel.label_maior = "b"
    /\ rel.labels_menores = <<"c", "a">>
    /\ rel.maior > rel.soma_menores

-----------------------------------------------------------------------------
(* C9 *)

\* What a complete run on a validated triple has called and printed, in order.
ExpectedOut(forma) ==
    <<"banner", "verificar_triangulo", "subplots">>
        \o (IF forma THEN <<"calcular_vertice", "plotar_triangulo">>
                     ELSE <<"plotar_segmentos">>)
        \o <<"show", "segmentos">>
        \o (IF forma THEN <<>> ELSE <<"condicao_violada">>)
        \o <<"resultado">>

IsPrefix(s, t) == Len(s) <= Len(t) /\ SubSeq(t, 1, Len(s)) = s

C9_Order ==
    /\ Validated => (AllPositiveRead /\ a = entered[1].val
                        /\ b = entered[2].val /\ c = entered[3].val)
    /\ Called("subplots") => IsPrefix(out, ExpectedOut(forma_triangulo))
    /\ shown <= 1
    /\ (shown = 1) <=> Called("show")
    /\ Called("show") =>
           fig.kind = (IF forma_triangulo THEN "triangulo" ELSE "segmentos")
    /\ rel.printed <=> Called("resultado")
    /\ (pc = "fim" /\ AllPositiveRead) =>
           /\ out = ExpectedOut(forma_triangulo)
           /\ shown = 1
           /\ (rel.resultado = "PODE formar triangulo") <=> forma_triangulo
           /\ (rel.resultado = "NAO forma triangulo") <=> ~forma_triangulo

-----------------------------------------------------------------------------
(* C10 *)

====
